---- MODULE Spec2Model ----
(***************************************************************************)
(* PR reviewer assignment service (src/server.py).                         *)
(*                                                                         *)
(* The state is the content of the four tables (teams, users,              *)
(* pull_requests, pr_reviewers) plus the response of the last request.     *)
(* Every handler runs as one transaction: it reads, mutates the session    *)
(* and commits once.  Under Spec requests are served one after the other   *)
(* and each handler is one action.  Under SpecMergeSwap and                *)
(* SpecDeactivate requests overlap: a handler is a sequence of steps, one  *)
(* per SQL statement it sends (each sees what is committed at that         *)
(* moment, PostgreSQL's READ COMMITTED) and a last one for the flush and   *)
(* commit; what a request has loaded meanwhile is in sess.                 *)
(*                                                                         *)
(* Columns that no handler ever reads back (users.username,                *)
(* pull_requests.pull_request_name, pull_requests.created_at) are payload  *)
(* only and are not part of the state.  Identifiers are numbers; the team  *)
(* name 0 stands for the empty string "", which Python treats as false in  *)
(* `not author.team_name`.                                                 *)
(*                                                                         *)
(* The actions are the six handlers that write rows: add_team,             *)
(* set_is_active, create_pr, merge_pr, reassign_pr, deactivate_members;    *)
(* SpecReview adds the read-only get_user_reviews.  reset_db drops and     *)
(* recreates every table (back to Init) and is not one of the operations   *)
(* the properties below range over.                                        *)
(***************************************************************************)
EXTENDS Integers, FiniteSets, Sequences, TLC

\* ------------------------------------------------------------------ bounds
NumUsers == 4
NumTeams == 1
NumPRs == 1
MaxTime == 2
NumSessions == 2

UserIds == 1..NumUsers
EmptyName == 0
TeamNames == EmptyName..NumTeams
PRIds == 1..NumPRs
Times == 1..MaxTime
NoTime == 0
Sessions == 1..NumSessions

\* ------------------------------------------------------------------- state
VARIABLES teams, users, prs, resp, sess

vars == <<teams, users, prs, resp, sess>>

db == <<teams, users, prs>>

OPEN == "OPEN"

MERGED == "MERGED"

\* A session that serves no request.
Idle == [op |-> "idle"]

Init ==
    /\ teams = {}
    /\ users = [u \in {} |-> u]
    /\ prs = [p \in {} |-> p]
    /\ resp = [op |-> "on_startup", code |-> "OK"]
    /\ sess = [s \in Sessions |-> Idle]

\* ----------------------------------------------------------------- queries
get_team(t) == t \in teams

get_user(u) == u \in DOMAIN users

get_pr(p) == p \in DOMAIN prs

\* Mutant of Truthy: `author.team_name is not None`, true of "" as well.
Truthy_notNone(name) == name \in TeamNames

\* Python truthiness of a team_name column value: None and "" are false.
Truthy(name) == name # EmptyName

Min(a, b) == IF a <= b THEN a ELSE b

MaxReviewers == 2

\* Mutant of ShufflePrefix: the [:2] slice is missing.
ShufflePrefix_all(candidates) == {candidates}

\* Mutant of ShufflePrefix: candidates[:1].
ShufflePrefix_one(candidates) ==
    { S \in SUBSET candidates :
        Cardinality(S) = Min(1, Cardinality(candidates)) }

\* random.shuffle(candidates); candidates[:2]
ShufflePrefix(candidates) ==
    { S \in SUBSET candidates :
        Cardinality(S) = Min(MaxReviewers, Cardinality(candidates)) }

\* Mutant of CreateCandidates: the User.is_active filter is missing.
CreateCandidates_inactiveToo(a) ==
    { u \in DOMAIN users :
        /\ users[u].team_name = users[a].team_name
        /\ u # a }

\* create_pr: active members of the author's team other than the author
CreateCandidates(a) ==
    { u \in DOMAIN users :
        /\ users[u].team_name = users[a].team_name
        /\ users[u].is_active
        /\ u # a }

\* reassign_pr: the candidates query, over the users table as committed
\* when it runs, with the team, reviewer ids and author the request loaded.
CandidatesQuery(team, current_reviewer_ids, author) ==
    { u \in DOMAIN users :
        /\ users[u].team_name = team
        /\ users[u].is_active
        /\ u \notin current_reviewer_ids
        /\ u # author }

\* Mutant of ReassignCandidates: the author is not excluded.
ReassignCandidates_withAuthor(p, old) ==
    { u \in DOMAIN users :
        /\ users[u].team_name = users[old].team_name
        /\ users[u].is_active
        /\ u \notin prs[p].reviewers }

\* Mutant of ReassignCandidates: the current reviewers are not excluded.
ReassignCandidates_withReviewers(p, old) ==
    { u \in DOMAIN users :
        /\ users[u].team_name = users[old].team_name
        /\ users[u].is_active
        /\ u # prs[p].author_id }

\* Mutant of ReassignCandidates: the pool is anchored on the author's team.
ReassignCandidates_authorTeam(p, old) ==
    { u \in DOMAIN users :
        /\ users[u].team_name = users[prs[p].author_id].team_name
        /\ users[u].is_active
        /\ u \notin prs[p].reviewers
        /\ u # prs[p].author_id }

\* Mutant of ReassignCandidates: the User.is_active filter is missing.
ReassignCandidates_inactiveToo(p, old) ==
    { u \in DOMAIN users :
        /\ users[u].team_name = users[old].team_name
        /\ u \notin prs[p].reviewers
        /\ u # prs[p].author_id }

\* reassign_pr: active members of the old reviewer's team that are neither
\* current reviewers nor the author
ReassignCandidates(p, old) ==
    CandidatesQuery(users[old].team_name, prs[p].reviewers, prs[p].author_id)

\* Mutant of UsersToDeactivate: the members of every team are taken.
UsersToDeactivate_allTeams(t) ==
    { u \in DOMAIN users : users[u].is_active }

\* Mutant of UsersToDeactivate: the `if u.is_active` filter is missing.
UsersToDeactivate_inactiveToo(t) ==
    { u \in DOMAIN users : users[u].team_name = t }

\* deactivate_members: users_to_deactivate
UsersToDeactivate(t) ==
    { u \in DOMAIN users : users[u].team_name = t /\ users[u].is_active }

\* Mutant of ReplacementsQuery: the inactive members are selected.
ReplacementsQuery_inactiveToo(t, ids) ==
    { u \in DOMAIN users :
        /\ users[u].team_name = t
        /\ ~users[u].is_active
        /\ u \notin ids }

\* deactivate_members: the active_replacements_in_team query, over the
\* users table as committed when it runs, with the deactivating_user_ids
\* the request computed before.
ReplacementsQuery(t, ids) ==
    { u \in DOMAIN users :
        /\ users[u].team_name = t
        /\ users[u].is_active
        /\ u \notin ids }

\* Mutant of ActiveReplacements: the users being deactivated are not
\* excluded.
ActiveReplacements_withDeactivating(t) ==
    { u \in DOMAIN users : users[u].team_name = t /\ users[u].is_active }

\* deactivate_members: active_replacements_in_team
ActiveReplacements(t) == ReplacementsQuery(t, UsersToDeactivate(t))

\* Mutant of OpenPRsWithReviewerIn: the status filter is missing.
OpenPRsWithReviewerIn_anyStatus(ids) ==
    { p \in DOMAIN prs : prs[p].reviewers \cap ids # {} }

\* deactivate_members: open_prs_query
OpenPRsWithReviewerIn(ids) ==
    { p \in DOMAIN prs :
        prs[p].status = OPEN /\ prs[p].reviewers \cap ids # {} }

\* deactivate_members: reviewers_to_replace of one pull request
ReviewersToReplace(revs, ids) == revs \cap ids

\* Mutant of RepairOutcomes: the else branch does not record the pull
\* request in reassigned_pr_ids.
RECURSIVE RepairOutcomes_noAddOnDrop(_, _, _, _, _, _, _)
RepairOutcomes_noAddOnDrop(revs, cur, todo, pool, author, touched, added) ==
    IF todo = {}
    THEN {[reviewers |-> revs, touched |-> touched, added |-> added]}
    ELSE UNION {
        LET valid == { r \in pool : r \notin cur /\ r # author }
        IN  IF valid # {}
            THEN UNION { RepairOutcomes_noAddOnDrop(
                             (revs \ {old}) \cup {new}, cur \cup {new},
                             todo \ {old}, pool, author, TRUE,
                             Append(added, new))
                         : new \in valid }
            ELSE RepairOutcomes_noAddOnDrop(revs \ {old}, cur, todo \ {old},
                                            pool, author, touched, added)
        : old \in todo }

\* Mutant of RepairOutcomes: the else branch leaves the old reviewer in
\* place.
RECURSIVE RepairOutcomes_keepOnNoCandidate(_, _, _, _, _, _, _)
RepairOutcomes_keepOnNoCandidate(revs, cur, todo, pool, author, touched, added) ==
    IF todo = {}
    THEN {[reviewers |-> revs, touched |-> touched, added |-> added]}
    ELSE UNION {
        LET valid == { r \in pool : r \notin cur /\ r # author }
        IN  IF valid # {}
            THEN UNION { RepairOutcomes_keepOnNoCandidate(
                             (revs \ {old}) \cup {new}, cur \cup {new},
                             todo \ {old}, pool, author, TRUE,
                             Append(added, new))
                         : new \in valid }
            ELSE RepairOutcomes_keepOnNoCandidate(revs, cur, todo \ {old},
                                                  pool, author, TRUE, added)
        : old \in todo }

\* Mutant of RepairOutcomes: current_reviewer_ids.add(new_user.user_id)
\* is missing.
RECURSIVE RepairOutcomes_staleCurrent(_, _, _, _, _, _, _)
RepairOutcomes_staleCurrent(revs, cur, todo, pool, author, touched, added) ==
    IF todo = {}
    THEN {[reviewers |-> revs, touched |-> touched, added |-> added]}
    ELSE UNION {
        LET valid == { r \in pool : r \notin cur /\ r # author }
        IN  IF valid # {}
            THEN UNION { RepairOutcomes_staleCurrent(
                             (revs \ {old}) \cup {new}, cur,
                             todo \ {old}, pool, author, TRUE,
                             Append(added, new))
                         : new \in valid }
            ELSE RepairOutcomes_staleCurrent(revs \ {old}, cur, todo \ {old},
                                             pool, author, TRUE, added)
        : old \in todo }

\* deactivate_members: the inner loop over reviewers_to_replace of one pull
\* request.  revs is pr.reviewers, cur is current_reviewer_ids (it only
\* grows), todo is what is left of reviewers_to_replace, touched says
\* whether reassigned_pr_ids.add(pr.pull_request_id) has run, added is the
\* log of the users random.choice returned, in order; the result is the
\* set of (reviewer set, touched, added) the loop can end with, over every
\* list order and every random.choice.
RECURSIVE RepairOutcomes(_, _, _, _, _, _, _)
RepairOutcomes(revs, cur, todo, pool, author, touched, added) ==
    IF todo = {}
    THEN {[reviewers |-> revs, touched |-> touched, added |-> added]}
    ELSE UNION {
        LET valid == { r \in pool : r \notin cur /\ r # author }
        IN  IF valid # {}
            THEN UNION { RepairOutcomes((revs \ {old}) \cup {new},
                                        cur \cup {new}, todo \ {old},
                                        pool, author, TRUE,
                                        Append(added, new)) : new \in valid }
            ELSE RepairOutcomes(revs \ {old}, cur, todo \ {old},
                                pool, author, TRUE, added)
        : old \in todo }

\* deactivate_members: the loop over open_prs_query.  loaded maps each pull
\* request of the query to the reviewers loaded with it; the result is the
\* set of functions giving each its outcome of the inner loop.
RepairAll(loaded, ids, pool) ==
    { f \in [DOMAIN loaded ->
               UNION { RepairOutcomes(loaded[p], loaded[p],
                                      ReviewersToReplace(loaded[p], ids),
                                      pool, prs[p].author_id, FALSE, <<>>)
                       : p \in DOMAIN loaded }] :
        \A p \in DOMAIN loaded :
            f[p] \in RepairOutcomes(loaded[p], loaded[p],
                                    ReviewersToReplace(loaded[p], ids),
                                    pool, prs[p].author_id, FALSE, <<>>) }

\* user.assigned_prs: the pull requests pr_reviewers links to user u.
AssignedPRs(u) == { p \in DOMAIN prs : u \in prs[p].reviewers }

\* Mutant of OpenAssigned: the status filter is missing.
OpenAssigned_anyStatus(u) == AssignedPRs(u)

\* get_user_reviews: the pull requests listed for user u.
OpenAssigned(u) == { p \in AssignedPRs(u) : prs[p].status = OPEN }

\* ----------------------------------------------------------------- actions
\* Mutant of add_team: the members are upserted and committed before the
\* team name is looked up.
add_team_upsertFirst ==
    /\ UNCHANGED sess
    /\ \E t \in TeamNames :
        \E S \in SUBSET UserIds : \E act \in [S -> BOOLEAN] :
        \E dup \in {{}, S} :
            IF \E m \in dup : ~get_user(m)
            THEN /\ resp' = [op |-> "add_team", code |-> "DB_ERROR",
                             team |-> t]
                 /\ UNCHANGED db
            ELSE /\ users' = [u \in DOMAIN users \cup S |->
                                IF u \in S
                                THEN [is_active |-> act[u], team_name |-> t]
                                ELSE users[u]]
                 /\ teams' = teams \cup {t}
                 /\ resp' = [op |-> "add_team",
                             code |-> IF get_team(t) THEN "TEAM_EXISTS"
                                      ELSE "OK",
                             team |-> t]
                 /\ UNCHANGED prs

\* POST /team/add.  The members list is read as the set S of listed
\* user_ids, the is_active flag of the last entry of each (act), and the ids
\* listed more than once (dup, here none of them or all of them): two new
\* rows with one primary key make the commit raise IntegrityError.
add_team ==
    /\ UNCHANGED sess
    /\ \E t \in TeamNames :
        IF get_team(t)
        THEN /\ resp' = [op |-> "add_team", code |-> "TEAM_EXISTS",
                         team |-> t]
             /\ UNCHANGED db
        ELSE \E S \in SUBSET UserIds : \E act \in [S -> BOOLEAN] :
             \E dup \in {{}, S} :
                IF \E m \in dup : ~get_user(m)
                THEN /\ resp' = [op |-> "add_team", code |-> "DB_ERROR",
                                 team |-> t]
                     /\ UNCHANGED db
                ELSE /\ teams' = teams \cup {t}
                     /\ users' = [u \in DOMAIN users \cup S |->
                                    IF u \in S
                                    THEN [is_active |-> act[u], team_name |-> t]
                                    ELSE users[u]]
                     /\ resp' = [op |-> "add_team", code |-> "OK",
                                 team |-> t]
                     /\ UNCHANGED prs

\* POST /users/setIsActive
set_is_active ==
    /\ UNCHANGED sess
    /\ \E u \in UserIds, b \in BOOLEAN :
        IF ~get_user(u)
        THEN /\ resp' = [op |-> "set_is_active", code |-> "NOT_FOUND"]
             /\ UNCHANGED db
        ELSE /\ users' = [users EXCEPT ![u].is_active = b]
             /\ resp' = [op |-> "set_is_active", code |-> "OK"]
             /\ UNCHANGED <<teams, prs>>

\* Mutant of create_pr: the author is looked up before the pull request id.
create_pr_authorFirst ==
    /\ UNCHANGED sess
    /\ \E p \in PRIds, a \in UserIds :
        IF ~get_user(a) \/ ~Truthy(users[a].team_name)
        THEN /\ resp' = [op |-> "create_pr", code |-> "NOT_FOUND",
                         pr |-> p, author |-> a]
             /\ UNCHANGED db
        ELSE IF get_pr(p)
        THEN /\ resp' = [op |-> "create_pr", code |-> "PR_EXISTS", pr |-> p]
             /\ UNCHANGED db
        ELSE \E R \in ShufflePrefix(CreateCandidates(a)) :
             /\ prs' = [q \in DOMAIN prs \cup {p} |->
                          IF q = p
                          THEN [author_id |-> a, status |-> OPEN,
                                merged_at |-> NoTime, reviewers |-> R]
                          ELSE prs[q]]
             /\ resp' = [op |-> "create_pr", code |-> "OK",
                         pr |-> p, author |-> a]
             /\ UNCHANGED <<teams, users>>

\* POST /pullRequest/create
create_pr ==
    /\ UNCHANGED sess
    /\ \E p \in PRIds, a \in UserIds :
        IF get_pr(p)
        THEN /\ resp' = [op |-> "create_pr", code |-> "PR_EXISTS", pr |-> p]
             /\ UNCHANGED db
        ELSE IF ~get_user(a) \/ ~Truthy(users[a].team_name)
        THEN /\ resp' = [op |-> "create_pr", code |-> "NOT_FOUND",
                         pr |-> p, author |-> a]
             /\ UNCHANGED db
        ELSE \E R \in ShufflePrefix(CreateCandidates(a)) :
             /\ prs' = [q \in DOMAIN prs \cup {p} |->
                          IF q = p
                          THEN [author_id |-> a, status |-> OPEN,
                                merged_at |-> NoTime, reviewers |-> R]
                          ELSE prs[q]]
             /\ resp' = [op |-> "create_pr", code |-> "OK",
                         pr |-> p, author |-> a]
             /\ UNCHANGED <<teams, users>>

\* Mutant of merge_pr: the `if pr.status != PRStatus.MERGED` guard is missing.
merge_pr_overwrite ==
    /\ UNCHANGED sess
    /\ \E p \in PRIds, now \in Times :
        IF ~get_pr(p)
        THEN /\ resp' = [op |-> "merge_pr", code |-> "NOT_FOUND", pr |-> p,
                         at |-> now]
             /\ UNCHANGED db
        ELSE /\ prs' = [prs EXCEPT ![p].status = MERGED, ![p].merged_at = now]
             /\ resp' = [op |-> "merge_pr", code |-> "OK", pr |-> p,
                         at |-> now, status |-> prs'[p].status,
                         mergedAt |-> prs'[p].merged_at]
             /\ UNCHANGED <<teams, users>>

\* POST /pullRequest/merge.  now is the clock at the time of the request
\* (datetime.now(timezone.utc)); resp.at records it with the request.
merge_pr ==
    /\ UNCHANGED sess
    /\ \E p \in PRIds, now \in Times :
        IF ~get_pr(p)
        THEN /\ resp' = [op |-> "merge_pr", code |-> "NOT_FOUND", pr |-> p,
                         at |-> now]
             /\ UNCHANGED db
        ELSE /\ prs' = IF prs[p].status # MERGED
                       THEN [prs EXCEPT ![p].status = MERGED,
                                        ![p].merged_at = now]
                       ELSE prs
             /\ resp' = [op |-> "merge_pr", code |-> "OK", pr |-> p,
                         at |-> now, status |-> prs'[p].status,
                         mergedAt |-> prs'[p].merged_at]
             /\ UNCHANGED <<teams, users>>

\* Mutant of ReassignCode: the NOT_ASSIGNED check comes before PR_MERGED.
ReassignCode_assignedFirst(p, old) ==
    IF ~get_pr(p) THEN "NOT_FOUND"
    ELSE IF old \notin prs[p].reviewers THEN "NOT_ASSIGNED"
    ELSE IF prs[p].status = MERGED THEN "PR_MERGED"
    ELSE IF ~get_team(users[old].team_name) THEN "NO_CANDIDATE"
    ELSE IF ReassignCandidates(p, old) = {} THEN "NO_CANDIDATE"
    ELSE "OK"

\* POST /pullRequest/reassign: the precondition checks, in the order the
\* handler makes them, as the error code of the first that fails.
ReassignCode(p, old) ==
    IF ~get_pr(p) THEN "NOT_FOUND"
    ELSE IF prs[p].status = MERGED THEN "PR_MERGED"
    ELSE IF old \notin prs[p].reviewers THEN "NOT_ASSIGNED"
    ELSE IF ~get_team(users[old].team_name) THEN "NO_CANDIDATE"
    ELSE IF ReassignCandidates(p, old) = {} THEN "NO_CANDIDATE"
    ELSE "OK"

\* Mutant of reassign_pr: the old reviewer is removed and the removal
\* committed before the pool is found empty.
reassign_pr_dropOnNoCandidate ==
    /\ UNCHANGED sess
    /\ \E p \in PRIds, old \in UserIds :
        IF ReassignCode(p, old) \notin {"OK", "NO_CANDIDATE"}
        THEN /\ resp' = [op |-> "reassign_pr", code |-> ReassignCode(p, old),
                         pr |-> p, old |-> old]
             /\ UNCHANGED db
        ELSE IF ReassignCode(p, old) = "NO_CANDIDATE"
        THEN /\ prs' = [prs EXCEPT ![p].reviewers = @ \ {old}]
             /\ resp' = [op |-> "reassign_pr", code |-> "NO_CANDIDATE",
                         pr |-> p, old |-> old]
             /\ UNCHANGED <<teams, users>>
        ELSE \E new \in ReassignCandidates(p, old) :
             /\ prs' = [prs EXCEPT ![p].reviewers = (@ \ {old}) \cup {new}]
             /\ resp' = [op |-> "reassign_pr", code |-> "OK",
                         pr |-> p, old |-> old, replaced_by |-> new]
             /\ UNCHANGED <<teams, users>>

\* POST /pullRequest/reassign
reassign_pr ==
    /\ UNCHANGED sess
    /\ \E p \in PRIds, old \in UserIds :
        IF ReassignCode(p, old) # "OK"
        THEN /\ resp' = [op |-> "reassign_pr", code |-> ReassignCode(p, old),
                         pr |-> p, old |-> old]
             /\ UNCHANGED db
        ELSE \E new \in ReassignCandidates(p, old) :
             /\ prs' = [prs EXCEPT ![p].reviewers = (@ \ {old}) \cup {new}]
             /\ resp' = [op |-> "reassign_pr", code |-> "OK",
                         pr |-> p, old |-> old, replaced_by |-> new]
             /\ UNCHANGED <<teams, users>>

\* POST /team/deactivate_members.  The added field of the response is not
\* sent to the client: it logs, per pull request, the users random.choice
\* returned, in the order of the calls.
deactivate_members ==
    /\ UNCHANGED sess
    /\ \E t \in TeamNames :
        IF ~get_team(t)
        THEN /\ resp' = [op |-> "deactivate_members", code |-> "NOT_FOUND",
                         team |-> t]
             /\ UNCHANGED db
        ELSE IF UsersToDeactivate(t) = {}
        THEN /\ resp' = [op |-> "deactivate_members", code |-> "OK",
                         team |-> t, deactivated_count |-> 0,
                         reassigned_prs |-> {},
                         added |-> [p \in {} |-> <<>>]]
             /\ UNCHANGED db
        ELSE LET ids == UsersToDeactivate(t)
                 open == OpenPRsWithReviewerIn(ids)
                 pool == ActiveReplacements(t)
             IN  \E f \in RepairAll([p \in open |-> prs[p].reviewers],
                                        ids, pool) :
                 /\ prs' = [p \in DOMAIN prs |->
                              IF p \in open
                              THEN [prs[p] EXCEPT !.reviewers = f[p].reviewers]
                              ELSE prs[p]]
                 /\ users' = [u \in DOMAIN users |->
                                IF u \in ids
                                THEN [users[u] EXCEPT !.is_active = FALSE]
                                ELSE users[u]]
                 /\ resp' = [op |-> "deactivate_members", code |-> "OK",
                             team |-> t,
                             deactivated_count |-> Cardinality(ids),
                             reassigned_prs |->
                                 { p \in open : f[p].touched },
                             added |-> [p \in open |-> f[p].added]]
                 /\ UNCHANGED teams

Next ==
    \/ add_team
    \/ set_is_active
    \/ create_pr
    \/ merge_pr
    \/ reassign_pr
    \/ deactivate_members

Spec == Init /\ [][Next]_vars

\* GET /users/getReview
get_user_reviews ==
    /\ UNCHANGED <<db, sess>>
    /\ \E u \in UserIds :
        IF ~get_user(u)
        THEN resp' = [op |-> "get_user_reviews", code |-> "NOT_FOUND",
                      user |-> u]
        ELSE resp' = [op |-> "get_user_reviews", code |-> "OK",
                      user |-> u, pull_requests |-> OpenAssigned(u)]

\* The six handlers that write and the read of a user's reviews.
NextReview ==
    \/ Next
    \/ get_user_reviews

SpecReview == Init /\ [][NextReview]_vars

\* ------------------------------------------------ overlapping requests
\* Session s starts serving a request / stops serving it.
Load(s, rec) == sess' = [sess EXCEPT ![s] = rec]

Close(s) == sess' = [sess EXCEPT ![s] = Idle]

\* Mutant of supports_sane_multi_rowcount: the psycopg2 dialect with
\* executemany_mode "batch", which reports no row counts.
supports_sane_multi_rowcount_batch == FALSE

\* create_engine(DATABASE_URL, echo=False, future=True) on a postgresql://
\* URL: the psycopg2 dialect with its default executemany_mode, whose
\* result reports the rows a DELETE matched.  The unit of work compares
\* that count with the rows it meant to delete from pr_reviewers and raises
\* StaleDataError when they differ.
supports_sane_multi_rowcount == TRUE

\* An exception no handler catches (IntegrityError, StaleDataError): the
\* transaction is rolled back when get_db closes the session and the
\* client gets a 500.
ServerError(s, name) ==
    /\ resp' = [op |-> name, code |-> "500"]
    /\ Close(s)
    /\ UNCHANGED db

\* merge_pr up to pr.status = MERGED: get_pr and the checks on what it
\* loaded.  A pull request loaded as MERGED is answered as loaded.
merge_begin(s) ==
    /\ sess[s] = Idle
    /\ \E p \in PRIds :
        IF ~get_pr(p)
        THEN /\ resp' = [op |-> "merge_pr", code |-> "NOT_FOUND", pr |-> p]
             /\ UNCHANGED <<db, sess>>
        ELSE IF prs[p].status = MERGED
        THEN /\ resp' = [op |-> "merge_pr", code |-> "OK", pr |-> p,
                         status |-> prs[p].status,
                         mergedAt |-> prs[p].merged_at]
             /\ UNCHANGED <<db, sess>>
        ELSE /\ Load(s, [op |-> "merge_pr", pc |-> "commit", pr |-> p])
             /\ UNCHANGED <<db, resp>>

\* merge_pr from pr.merged_at = now() to the response: the UPDATE of the
\* pull_requests row, the commit and the refresh.
merge_commit(s) ==
    /\ sess[s].op = "merge_pr"
    /\ \E now \in Times :
        LET p == sess[s].pr
        IN  /\ prs' = [prs EXCEPT ![p].status = MERGED,
                                  ![p].merged_at = now]
            /\ resp' = [op |-> "merge_pr", code |-> "OK", pr |-> p,
                        status |-> MERGED, mergedAt |-> now]
            /\ Close(s)
            /\ UNCHANGED <<teams, users>>

\* reassign_pr up to the NOT_ASSIGNED check: get_pr (the pull request and
\* its reviewers, one SELECT) and the checks on what it loaded.
reassign_begin(s) ==
    /\ sess[s] = Idle
    /\ \E p \in PRIds, old \in UserIds :
        IF ~get_pr(p)
        THEN /\ resp' = [op |-> "reassign_pr", code |-> "NOT_FOUND",
                         pr |-> p, old |-> old]
             /\ UNCHANGED <<db, sess>>
        ELSE IF prs[p].status = MERGED
        THEN /\ resp' = [op |-> "reassign_pr", code |-> "PR_MERGED",
                         pr |-> p, old |-> old]
             /\ UNCHANGED <<db, sess>>
        ELSE IF old \notin prs[p].reviewers
        THEN /\ resp' = [op |-> "reassign_pr", code |-> "NOT_ASSIGNED",
                         pr |-> p, old |-> old]
             /\ UNCHANGED <<db, sess>>
        ELSE /\ Load(s, [op |-> "reassign_pr", pc |-> "select", pr |-> p,
                         old |-> old, reviewers |-> prs[p].reviewers,
                         team |-> users[old].team_name])
             /\ UNCHANGED <<db, resp>>

\* reassign_pr from the Team query to random.choice: the team and the
\* candidates are read as committed now, the reviewer ids and the old
\* reviewer's team are those loaded by get_pr.
reassign_select(s) ==
    /\ sess[s].op = "reassign_pr"
    /\ sess[s].pc = "select"
    /\ LET r == sess[s]
           candidates == CandidatesQuery(r.team, r.reviewers,
                                         prs[r.pr].author_id)
       IN  IF ~get_team(r.team) \/ candidates = {}
           THEN /\ resp' = [op |-> "reassign_pr", code |-> "NO_CANDIDATE",
                            pr |-> r.pr, old |-> r.old]
                /\ Close(s)
                /\ UNCHANGED db
           ELSE \E new \in candidates :
                /\ Load(s, [r EXCEPT !.pc = "commit"] @@ [new |-> new])
                /\ UNCHANGED <<db, resp>>

\* reassign_pr from pr.reviewers.remove to the response: the flush sends
\* DELETE (pr, old) and INSERT (pr, new) on pr_reviewers, then the commit.
\* The INSERT of a row that is there violates the primary key.  A DELETE
\* that matches no row raises StaleDataError when the dialect reports row
\* counts and passes unnoticed when it does not.
reassign_commit(s) ==
    /\ sess[s].op = "reassign_pr"
    /\ sess[s].pc = "commit"
    /\ LET r == sess[s]
           rows == prs[r.pr].reviewers
       IN  IF \/ r.new \in rows
              \/ r.old \notin rows /\ supports_sane_multi_rowcount
            THEN ServerError(s, "reassign_pr")
            ELSE /\ prs' = [prs EXCEPT ![r.pr].reviewers =
                                           (rows \ {r.old}) \cup {r.new}]
                 /\ resp' = [op |-> "reassign_pr", code |-> "OK",
                             pr |-> r.pr, old |-> r.old,
                             replaced_by |-> r.new]
                 /\ Close(s)
                 /\ UNCHANGED <<teams, users>>

\* deactivate_members up to the early return: get_team and the lazy load
\* of team.users.
deactivate_begin(s) ==
    /\ sess[s] = Idle
    /\ \E t \in TeamNames :
        IF ~get_team(t)
        THEN /\ resp' = [op |-> "deactivate_members", code |-> "NOT_FOUND",
                         team |-> t]
             /\ UNCHANGED <<db, sess>>
        ELSE IF UsersToDeactivate(t) = {}
        THEN /\ resp' = [op |-> "deactivate_members", code |-> "OK",
                         team |-> t, deactivated_count |-> 0,
                         reassigned_prs |-> {},
                         added |-> [p \in {} |-> <<>>]]
             /\ UNCHANGED <<db, sess>>
        ELSE /\ Load(s, [op |-> "deactivate_members", pc |-> "open_prs",
                         team |-> t, ids |-> UsersToDeactivate(t)])
             /\ UNCHANGED <<db, resp>>

\* deactivate_members: open_prs_query with its selectinload of the
\* reviewers, read as committed now.
deactivate_open_prs(s) ==
    /\ sess[s].op = "deactivate_members"
    /\ sess[s].pc = "open_prs"
    /\ Load(s, [sess[s] EXCEPT !.pc = "replacements"]
               @@ [loaded |-> [p \in OpenPRsWithReviewerIn(sess[s].ids)
                                 |-> prs[p].reviewers]])
    /\ UNCHANGED <<db, resp>>

\* deactivate_members: the active_replacements_in_team query, read as
\* committed now.
deactivate_replacements(s) ==
    /\ sess[s].op = "deactivate_members"
    /\ sess[s].pc = "replacements"
    /\ Load(s, [sess[s] EXCEPT !.pc = "commit"]
               @@ [pool |-> ReplacementsQuery(sess[s].team, sess[s].ids)])
    /\ UNCHANGED <<db, resp>>

\* Mutant of deactivate_commit: the is_active flips are committed on their
\* own before the pr_reviewers rows are written.
deactivate_commit_flipsFirst(s) ==
    /\ sess[s].op = "deactivate_members"
    /\ sess[s].pc = "commit"
    /\ LET r == sess[s]
           open == DOMAIN r.loaded
       IN  \E f \in RepairAll(r.loaded, r.ids, r.pool) :
           LET deleted(p) == r.loaded[p] \ f[p].reviewers
               inserted(p) == f[p].reviewers \ r.loaded[p]
               failed == \E p \in open :
                           \/ inserted(p) \cap prs[p].reviewers # {}
                           \/ /\ ~(deleted(p) \subseteq prs[p].reviewers)
                              /\ supports_sane_multi_rowcount
           IN  /\ users' = [u \in DOMAIN users |->
                              IF u \in r.ids
                              THEN [users[u] EXCEPT !.is_active = FALSE]
                              ELSE users[u]]
               /\ prs' = IF failed THEN prs
                         ELSE [p \in DOMAIN prs |->
                                 IF p \in open
                                 THEN [prs[p] EXCEPT !.reviewers =
                                         (@ \ deleted(p)) \cup inserted(p)]
                                 ELSE prs[p]]
               /\ resp' = IF failed
                          THEN [op |-> "deactivate_members", code |-> "500"]
                          ELSE [op |-> "deactivate_members", code |-> "OK",
                                team |-> r.team,
                                deactivated_count |-> Cardinality(r.ids),
                                reassigned_prs |->
                                    { p \in open : f[p].touched },
                                added |-> [p \in open |-> f[p].added]]
               /\ Close(s)
               /\ UNCHANGED teams

\* deactivate_members from the loop to the response.  The flush sends,
\* for each loaded pull request, DELETE for the reviewers taken out of
\* pr.reviewers and INSERT for those put in, and an UPDATE of is_active
\* for each of users_to_deactivate; then the commit.
deactivate_commit(s) ==
    /\ sess[s].op = "deactivate_members"
    /\ sess[s].pc = "commit"
    /\ LET r == sess[s]
           open == DOMAIN r.loaded
       IN  \E f \in RepairAll(r.loaded, r.ids, r.pool) :
           LET deleted(p) == r.loaded[p] \ f[p].reviewers
               inserted(p) == f[p].reviewers \ r.loaded[p]
           IN  IF \E p \in open :
                    \/ inserted(p) \cap prs[p].reviewers # {}
                    \/ /\ ~(deleted(p) \subseteq prs[p].reviewers)
                       /\ supports_sane_multi_rowcount
               THEN ServerError(s, "deactivate_members")
               ELSE /\ prs' = [p \in DOMAIN prs |->
                                 IF p \in open
                                 THEN [prs[p] EXCEPT !.reviewers =
                                         (@ \ deleted(p)) \cup inserted(p)]
                                 ELSE prs[p]]
                    /\ users' = [u \in DOMAIN users |->
                                   IF u \in r.ids
                                   THEN [users[u] EXCEPT !.is_active = FALSE]
                                   ELSE users[u]]
                    /\ resp' = [op |-> "deactivate_members", code |-> "OK",
                                team |-> r.team,
                                deactivated_count |-> Cardinality(r.ids),
                                reassigned_prs |->
                                    { p \in open : f[p].touched },
                                added |-> [p \in open |-> f[p].added]]
                    /\ Close(s)
                    /\ UNCHANGED teams

\* A database the handlers produce: add_team puts every user into one
\* team, then create_pr by one of them.
InitConc ==
    \E t \in TeamNames, a \in UserIds, p \in PRIds :
    \E act \in [UserIds -> BOOLEAN] :
        /\ Truthy(t)
        /\ teams = {t}
        /\ users = [u \in UserIds |->
                      [is_active |-> act[u], team_name |-> t]]
        /\ \E R \in ShufflePrefix(CreateCandidates(a)) :
             prs = [q \in {p} |->
                      [author_id |-> a, status |-> OPEN,
                       merged_at |-> NoTime, reviewers |-> R]]
        /\ resp = [op |-> "create_pr", code |-> "OK",
                   pr |-> p, author |-> a]
        /\ sess = [s \in Sessions |-> Idle]

\* merge_pr and reassign_pr requests overlapping in any way, while
\* set_is_active requests are served whole between their statements.
NextMergeSwap ==
    \/ set_is_active
    \/ \E s \in Sessions :
        \/ merge_begin(s)
        \/ merge_commit(s)
        \/ reassign_begin(s)
        \/ reassign_select(s)
        \/ reassign_commit(s)

SpecMergeSwap == InitConc /\ [][NextMergeSwap]_vars

\* A deactivate_members request that starts while no other is under way.
deactivate_begin_alone(s) ==
    /\ \A o \in Sessions : sess[o] = Idle
    /\ deactivate_begin(s)

\* One deactivate_members request at a time, served statement by
\* statement, while set_is_active and reassign_pr requests are served
\* whole between its statements.
NextDeactivate ==
    \/ set_is_active
    \/ reassign_pr
    \/ \E s \in Sessions :
        \/ deactivate_begin_alone(s)
        \/ deactivate_open_prs(s)
        \/ deactivate_replacements(s)
        \/ deactivate_commit(s)

SpecDeactivate == InitConc /\ [][NextDeactivate]_vars

\* ------------------------------------------------------------------ claims
\* The step just taken is the successful / failed call named in resp'.
CreateOk(r) == r.op = "create_pr" /\ r.code = "OK"

ReassignOk(r) == r.op = "reassign_pr" /\ r.code = "OK"

\* Active users of team t other than those in the set excl, read off the
\* users table as it is in the current state.
ActiveTeammates(t, excl) ==
    { u \in DOMAIN users :
        users[u].is_active /\ users[u].team_name = t /\ u \notin excl }

\* C1: in every reachable state no pull request's reviewer set contains
\* that pull request's author.
C1_AuthorNeverReviewer ==
    \A p \in DOMAIN prs : prs[p].author_id \notin prs[p].reviewers

\* C1 witness: a reviewer was swapped while the author was an active
\* member of the old reviewer's team, so only the exclusion kept the
\* author out of the pool.
C1_Witness ==
    /\ ReassignOk(resp)
    /\ users[prs[resp.pr].author_id].is_active
    /\ users[prs[resp.pr].author_id].team_name = users[resp.old].team_name

\* C2: right after a successful create_pr the new pull request has at most
\* 2 reviewers, each an active user of the author's team who is not the
\* author.  create_pr writes no user row, so the users table of the state
\* after the call is the one of creation time.
C2_CreateAssignsEligible ==
    CreateOk(resp) =>
        /\ Cardinality(prs[resp.pr].reviewers) <= 2
        /\ \A r \in prs[resp.pr].reviewers :
             /\ r \in DOMAIN users
             /\ users[r].is_active
             /\ users[r].team_name = users[resp.author].team_name
             /\ r # resp.author

\* C2 witness: a pull request created with 2 reviewers out of 3 eligible
\* team mates, while another known user is not eligible.
C2_Witness ==
    /\ CreateOk(resp)
    /\ Cardinality(prs[resp.pr].reviewers) = 2
    /\ Cardinality(ActiveTeammates(users[resp.author].team_name,
                                   {resp.author})) = 3

\* C3: a successful create_pr assigns exactly min(2, |pool|) reviewers, all
\* from the pool of active members of the author's team other than the
\* author (so a pool of one is assigned whole and an empty pool gives no
\* reviewers), and create_pr fails only for a pull_request_id in use or an
\* author that is missing or has no team, never for a small pool.
C3_CreateNeverUnderAssigns ==
    [][ resp'.op = "create_pr" =>
          LET p == resp'.pr
              pool == IF CreateOk(resp')
                      THEN ActiveTeammates(users[resp'.author].team_name,
                                           {resp'.author})
                      ELSE {}
              n == Cardinality(pool)
          IN  /\ CreateOk(resp') =>
                   /\ ~get_pr(p)
                   /\ prs'[p].reviewers \subseteq pool
                   /\ Cardinality(prs'[p].reviewers) = IF n < 2 THEN n ELSE 2
              /\ resp'.code = "PR_EXISTS" => get_pr(p)
              /\ resp'.code = "NOT_FOUND" =>
                   \/ ~get_user(resp'.author)
                   \/ users[resp'.author].team_name = EmptyName
              /\ resp'.code \in {"OK", "PR_EXISTS", "NOT_FOUND"} ]_vars

\* C3 witness: the pool holds one user and the new pull request's reviewer
\* set is exactly that user.
C3_Witness ==
    /\ CreateOk(resp)
    /\ Cardinality(prs[resp.pr].reviewers) = 1
    /\ prs[resp.pr].reviewers =
         ActiveTeammates(users[resp.author].team_name, {resp.author})

\* C3, second case: a pull request created with an empty pool and no
\* reviewers.
C3_WitnessEmptyPool ==
    /\ CreateOk(resp)
    /\ prs[resp.pr].reviewers = {}
    /\ ActiveTeammates(users[resp.author].team_name, {resp.author}) = {}

\* C4 as stated: a create_pr whose author does not exist or has no team
\* answers AUTHOR_NOT_ELIGIBLE.
C4_AuthorNotEligibleCode ==
    ( /\ resp.op = "create_pr"
      /\ resp.code # "PR_EXISTS"
      /\ \/ ~get_user(resp.author)
         \/ users[resp.author].team_name = EmptyName )
    => resp.code = "AUTHOR_NOT_ELIGIBLE"

\* C4 amended: a create_pr with a pull_request_id not in use whose author
\* does not exist, or whose user has no team (an empty team_name), answers
\* NOT_FOUND and leaves every table unchanged.
C4_AuthorMissingNotFound ==
    [][ ( /\ resp'.op = "create_pr"
          /\ resp'.code # "PR_EXISTS"
          /\ \/ ~get_user(resp'.author)
             \/ users[resp'.author].team_name = EmptyName )
        => /\ resp'.code = "NOT_FOUND"
           /\ prs' = prs
           /\ UNCHANGED <<teams, users>> ]_vars

\* C4 witness: create_pr was refused for an author id that is not in the
\* users table while other users exist.
C4_Witness ==
    /\ resp.op = "create_pr"
    /\ resp.code = "NOT_FOUND"
    /\ ~get_user(resp.author)
    /\ DOMAIN users # {}
    /\ ~get_pr(resp.pr)

\* C4, second case: create_pr was refused for an existing author whose
\* team_name is the empty string.
C4_WitnessNoTeam ==
    /\ resp.op = "create_pr"
    /\ resp.code = "NOT_FOUND"
    /\ get_user(resp.author)
    /\ users[resp.author].team_name = EmptyName

\* C5: a MERGED pull request stays MERGED and keeps its merged_at through
\* every step; merge_pr on an existing pull request always succeeds and
\* returns MERGED, and on an already MERGED one it returns the merged_at of
\* the first merge.
C5_MergedStaysMerged ==
    [][ /\ \A p \in DOMAIN prs :
             prs[p].status = MERGED =>
                /\ p \in DOMAIN prs'
                /\ prs'[p].status = MERGED
                /\ prs'[p].merged_at = prs[p].merged_at
        /\ resp'.op = "merge_pr" =>
             /\ resp'.code = "NOT_FOUND" <=> ~get_pr(resp'.pr)
             /\ resp'.code = "OK" =>
                  /\ resp'.status = MERGED
                  /\ resp'.mergedAt = prs'[resp'.pr].merged_at
                  /\ resp'.mergedAt \in Times
                  /\ prs[resp'.pr].status = MERGED =>
                       resp'.mergedAt = prs[resp'.pr].merged_at ]_vars

\* C5 witness: a merge_pr answered at a time other than the merged_at it
\* returned, that is a repeated merge of a pull request merged earlier.
C5_Witness ==
    /\ resp.op = "merge_pr"
    /\ resp.code = "OK"
    /\ resp.at # resp.mergedAt
    /\ prs[resp.pr].merged_at = resp.mergedAt

\* C6: no step changes the reviewer set of a pull request that is MERGED
\* before the step.
C6_MergedReviewersFrozen ==
    [][ \A p \in DOMAIN prs :
          prs[p].status = MERGED =>
             /\ p \in DOMAIN prs'
             /\ prs'[p].reviewers = prs[p].reviewers ]_vars

\* C6 witness: deactivate_members has just deactivated every member of a
\* team (all were active), and a MERGED pull request still lists one of
\* them as reviewer.
C6_Witness ==
    /\ resp.op = "deactivate_members"
    /\ resp.code = "OK"
    /\ resp.deactivated_count > 0
    /\ resp.deactivated_count =
         Cardinality({ u \in DOMAIN users : users[u].team_name = resp.team })
    /\ \E p \in DOMAIN prs :
         /\ prs[p].status = MERGED
         /\ \E r \in prs[p].reviewers : users[r].team_name = resp.team

\* C7: a reassign_pr that answers PR_MERGED, NOT_ASSIGNED or NO_CANDIDATE
\* leaves every table unchanged, the reviewer set of the pull request
\* included.
C7_ReassignFailureNoMutation ==
    [][ ( /\ resp'.op = "reassign_pr"
          /\ resp'.code \in {"PR_MERGED", "NOT_ASSIGNED", "NO_CANDIDATE"} )
        => /\ prs' = prs
           /\ users' = users
           /\ teams' = teams
           /\ (resp'.old \in prs[resp'.pr].reviewers
                 => resp'.old \in prs'[resp'.pr].reviewers)
           /\ Cardinality(prs'[resp'.pr].reviewers) =
                Cardinality(prs[resp'.pr].reviewers) ]_vars

\* C7 witness: reassign_pr answered NO_CANDIDATE for an assigned reviewer,
\* who is still assigned.
C7_Witness ==
    /\ resp.op = "reassign_pr"
    /\ resp.code = "NO_CANDIDATE"
    /\ resp.old \in prs[resp.pr].reviewers
    /\ prs[resp.pr].status = OPEN

\* C8: a successful reassign_pr(p, old) turns the reviewer set into
\* (before \ {old}) \cup {new} for the returned replaced_by = new: old was
\* a reviewer and is no longer one, new was not a reviewer and is not the
\* author, and the reviewer count is unchanged.
C8_ReassignSwapsExactlyOne ==
    [][ ReassignOk(resp') =>
          LET p == resp'.pr
              old == resp'.old
              new == resp'.replaced_by
          IN  /\ get_pr(p)
              /\ old \in prs[p].reviewers
              /\ new \notin prs[p].reviewers
              /\ new # prs[p].author_id
              /\ prs'[p].reviewers = (prs[p].reviewers \ {old}) \cup {new}
              /\ old \notin prs'[p].reviewers
              /\ new \in prs'[p].reviewers
              /\ Cardinality(prs'[p].reviewers) =
                   Cardinality(prs[p].reviewers)
              /\ \A q \in DOMAIN prs : q # p => prs'[q] = prs[q] ]_vars

\* C8 witness: one of two reviewers was swapped, the other kept.
C8_Witness ==
    /\ ReassignOk(resp)
    /\ Cardinality(prs[resp.pr].reviewers) = 2
    /\ resp.replaced_by \in prs[resp.pr].reviewers
    /\ resp.old \notin prs[resp.pr].reviewers

\* C9: the reviewer added by a successful reassign_pr is an active user
\* whose team is the old reviewer's current team.  reassign_pr writes no
\* user row, so the users table after the call is the one of the call.
C9_ReplacementFromOldReviewersTeam ==
    ReassignOk(resp) =>
        /\ get_user(resp.replaced_by)
        /\ users[resp.replaced_by].is_active
        /\ users[resp.replaced_by].team_name = users[resp.old].team_name

\* C9 witness: the replacement came from the old reviewer's team while the
\* author is in another team.
C9_Witness ==
    /\ ReassignOk(resp)
    /\ users[resp.old].team_name # users[prs[resp.pr].author_id].team_name
    /\ users[resp.replaced_by].team_name = users[resp.old].team_name

\* C10: reassign_pr on a MERGED pull request answers PR_MERGED whether or
\* not old is one of its reviewers, and on an OPEN pull request where old
\* is not a reviewer it answers NOT_ASSIGNED whether or not a replacement
\* candidate exists.
C10_ReassignCheckOrder ==
    [][ resp'.op = "reassign_pr" =>
          LET p == resp'.pr
              old == resp'.old
          IN  get_pr(p) =>
                /\ prs[p].status = MERGED => resp'.code = "PR_MERGED"
                /\ (prs[p].status = OPEN /\ old \notin prs[p].reviewers)
                     => resp'.code = "NOT_ASSIGNED" ]_vars

\* C10 witness: reassign_pr named the author as old reviewer of an OPEN
\* pull request and answered NOT_ASSIGNED although an active team mate of
\* the author who is neither reviewer nor author was available.
C10_Witness ==
    /\ resp.op = "reassign_pr"
    /\ resp.code = "NOT_ASSIGNED"
    /\ resp.old = prs[resp.pr].author_id
    /\ prs[resp.pr].status = OPEN
    /\ ActiveTeammates(users[resp.old].team_name,
                       prs[resp.pr].reviewers \cup {resp.old}) # {}

\* C10, second case: PR_MERGED for an old reviewer that is assigned, and
\* for one that is not.
C10_WitnessMergedAssigned ==
    /\ resp.op = "reassign_pr"
    /\ resp.code = "PR_MERGED"
    /\ resp.old \in prs[resp.pr].reviewers

C10_WitnessMergedNotAssigned ==
    /\ resp.op = "reassign_pr"
    /\ resp.code = "PR_MERGED"
    /\ resp.old \notin prs[resp.pr].reviewers

DeactivateOk(r) == r.op = "deactivate_members" /\ r.code = "OK"

\* C11: for an OPEN pull request and an old reviewer assigned to it,
\* reassign_pr answers NO_CANDIDATE exactly when no active user of the old
\* reviewer's team is neither a current reviewer nor the author, and
\* succeeds whenever there is one.
C11_NoCandidateIffPoolEmpty ==
    [][ resp'.op = "reassign_pr" =>
          LET p == resp'.pr
              old == resp'.old
          IN  ( /\ get_pr(p)
                /\ prs[p].status = OPEN
                /\ old \in prs[p].reviewers )
              => LET pool == ActiveTeammates(
                                 users[old].team_name,
                                 prs[p].reviewers \cup {prs[p].author_id})
                 IN  /\ resp'.code = "NO_CANDIDATE" <=> pool = {}
                     /\ pool # {} => resp'.code = "OK" ]_vars

\* C11 witness: NO_CANDIDATE for an assigned reviewer of an OPEN pull
\* request whose team has a further member, who is inactive.
C11_Witness ==
    /\ resp.op = "reassign_pr"
    /\ resp.code = "NO_CANDIDATE"
    /\ prs[resp.pr].status = OPEN
    /\ resp.old \in prs[resp.pr].reviewers
    /\ \E u \in DOMAIN users :
         /\ users[u].team_name = users[resp.old].team_name
         /\ ~users[u].is_active
         /\ u \notin prs[resp.pr].reviewers
         /\ u # prs[resp.pr].author_id

\* C12: a successful deactivate_members(team) leaves every user who was an
\* active member of the team inactive, returns their number as
\* deactivated_count, and changes no other user row.
C12_DeactivatesExactlyActiveMembers ==
    [][ DeactivateOk(resp') =>
          LET before == ActiveTeammates(resp'.team, {})
          IN  /\ DOMAIN users' = DOMAIN users
              /\ \A u \in before :
                   /\ ~users'[u].is_active
                   /\ users'[u].team_name = users[u].team_name
              /\ resp'.deactivated_count = Cardinality(before)
              /\ \A u \in DOMAIN users \ before : users'[u] = users[u] ]_vars

\* C12 witness: two or more members were deactivated while a user of
\* another team stays active.
C12_Witness ==
    /\ DeactivateOk(resp)
    /\ resp.deactivated_count >= 2
    /\ \E u \in DOMAIN users :
         users[u].is_active /\ users[u].team_name # resp.team

\* C13: reassigned_prs of a successful deactivate_members(team) is exactly
\* the set of pull requests that before the call were OPEN and had a
\* reviewer among the team's active members.
C13_ReassignedIsAffectedOpen ==
    [][ DeactivateOk(resp') =>
          resp'.reassigned_prs =
            { p \in DOMAIN prs :
                /\ prs[p].status = OPEN
                /\ prs[p].reviewers
                     \cap ActiveTeammates(resp'.team, {}) # {} } ]_vars

\* C13 witness: the only active member of the team was a reviewer and the
\* pull request is reported.
C13_Witness ==
    /\ DeactivateOk(resp)
    /\ resp.deactivated_count = 1
    /\ resp.reassigned_prs # {}

\* C14: after a successful deactivate_members(team) no OPEN pull request
\* lists a user that the call deactivated.
C14_NoDeactivatedReviewerLeft ==
    [][ DeactivateOk(resp') =>
          \A p \in DOMAIN prs' :
            prs'[p].status = OPEN =>
              prs'[p].reviewers \cap ActiveTeammates(resp'.team, {}) = {}
      ]_vars

\* C14 witness: a repaired pull request lost a reviewer and kept another.
C14_Witness ==
    /\ DeactivateOk(resp)
    /\ \E p \in resp.reassigned_prs :
         prs[p].status = OPEN /\ prs[p].reviewers # {}

\* C15: in a successful deactivate_members(team), an affected OPEN pull
\* request for which the replacement pool (active members of the team that
\* are not being deactivated) holds nobody who is neither reviewer nor
\* author ends with strictly fewer reviewers and is reported in
\* reassigned_prs; with a single reviewer it ends with none.
C15_NoReplacementShrinks ==
    [][ DeactivateOk(resp') =>
          LET ids == ActiveTeammates(resp'.team, {})
          IN  \A p \in DOMAIN prs :
                ( /\ prs[p].status = OPEN
                  /\ prs[p].reviewers \cap ids # {}
                  /\ ActiveTeammates(resp'.team,
                                     ids \cup prs[p].reviewers
                                         \cup {prs[p].author_id}) = {} )
                => /\ Cardinality(prs'[p].reviewers)
                        < Cardinality(prs[p].reviewers)
                   /\ (Cardinality(prs[p].reviewers) = 1
                         => prs'[p].reviewers = {})
                   /\ p \in resp'.reassigned_prs ]_vars

\* C15 witness: a team of the author and one reviewer was deactivated, the
\* pull request has no reviewer left and is reported.
C15_Witness ==
    /\ DeactivateOk(resp)
    /\ resp.deactivated_count = 2
    /\ Cardinality({ u \in DOMAIN users :
                       users[u].team_name = resp.team }) = 2
    /\ \E p \in resp.reassigned_prs :
         /\ users[prs[p].author_id].team_name = resp.team
         /\ prs[p].reviewers = {}

\* C17: deactivate_members on an existing team without active members
\* answers deactivated_count 0 and no reassigned_prs and leaves every
\* table unchanged.
C17_DeactivateNoActiveIsNoOp ==
    [][ ( /\ resp'.op = "deactivate_members"
          /\ get_team(resp'.team)
          /\ ActiveTeammates(resp'.team, {}) = {} )
        => /\ resp'.code = "OK"
           /\ resp'.deactivated_count = 0
           /\ resp'.reassigned_prs = {}
           /\ users' = users
           /\ prs' = prs
           /\ teams' = teams ]_vars

\* C17 witness: the no-op answer for a team whose inactive member reviews
\* an OPEN pull request.
C17_Witness ==
    /\ DeactivateOk(resp)
    /\ resp.deactivated_count = 0
    /\ \E p \in DOMAIN prs : \E r \in prs[p].reviewers :
         /\ prs[p].status = OPEN
         /\ users[r].team_name = resp.team

\* C18: create_pr with a pull_request_id that exists answers PR_EXISTS and
\* leaves the existing pull request (author, status, reviewers) and every
\* other row unchanged.
C18_CreateExistingIsRefused ==
    [][ (resp'.op = "create_pr" /\ get_pr(resp'.pr))
        => /\ resp'.code = "PR_EXISTS"
           /\ prs' = prs
           /\ users' = users
           /\ teams' = teams ]_vars

\* C18 witness: PR_EXISTS for an OPEN pull request with fewer than 2
\* reviewers whose author now has 2 or more eligible team mates.
C18_Witness ==
    /\ resp.op = "create_pr"
    /\ resp.code = "PR_EXISTS"
    /\ prs[resp.pr].status = OPEN
    /\ Cardinality(prs[resp.pr].reviewers) < 2
    /\ Cardinality(ActiveTeammates(
           users[prs[resp.pr].author_id].team_name,
           {prs[resp.pr].author_id})) >= 2

\* C19: add_team with a team name that exists answers TEAM_EXISTS and
\* leaves every table unchanged: no user is created, re-flagged or moved.
C19_AddExistingTeamIsRefused ==
    [][ (resp'.op = "add_team" /\ get_team(resp'.team))
        => /\ resp'.code = "TEAM_EXISTS"
           /\ users' = users
           /\ teams' = teams
           /\ prs' = prs ]_vars

\* C19 witness: TEAM_EXISTS while some user id is not yet in the users
\* table and the team has a member.
C19_Witness ==
    /\ resp.op = "add_team"
    /\ resp.code = "TEAM_EXISTS"
    /\ DOMAIN users # UserIds
    /\ \E u \in DOMAIN users : users[u].team_name = resp.team

\* Session s has just committed a deactivate_members request.
DeactivateCommitted(s) ==
    /\ sess[s].op = "deactivate_members"
    /\ sess[s].pc = "commit"
    /\ sess'[s] = Idle
    /\ resp'.code = "OK"

\* C16: the replacement pool of a deactivate_members request is what its
\* one query returns (active, in the team, not in toDeactivate), and every
\* user the request adds to a pull request is in that pool, is not being
\* deactivated, was not a reviewer of the pull request (as loaded, as
\* committed, or as added earlier by the same request) and is not its
\* author; the request adds nobody else.
C16_ReplacementsFromFixedPool ==
    [][ \A s \in Sessions :
          /\ ( /\ sess[s].op = "deactivate_members"
               /\ sess[s].pc = "replacements"
               /\ sess'[s] # sess[s] )
             => sess'[s].pool =
                  { u \in DOMAIN users :
                      /\ users[u].is_active
                      /\ users[u].team_name = sess[s].team
                      /\ u \notin sess[s].ids }
          /\ DeactivateCommitted(s)
             => \A p \in DOMAIN prs :
                  IF p \in DOMAIN sess[s].loaded
                  THEN LET added == resp'.added[p]
                       IN  /\ \A i \in DOMAIN added :
                                /\ added[i] \in sess[s].pool
                                /\ added[i] \notin sess[s].ids
                                /\ added[i] \notin sess[s].loaded[p]
                                /\ added[i] \notin prs[p].reviewers
                                /\ \A j \in 1..(i - 1) : added[j] # added[i]
                                /\ added[i] # prs[p].author_id
                           /\ prs'[p].reviewers \ prs[p].reviewers
                                = { added[i] : i \in DOMAIN added }
                  ELSE prs'[p] = prs[p] ]_vars

\* C16 witness: a deactivate_members request has committed a replacement,
\* who is now a reviewer of the pull request.
C16_Witness ==
    /\ DeactivateOk(resp)
    /\ \E p \in DOMAIN resp.added :
         /\ Len(resp.added[p]) >= 1
         /\ resp.added[p][1] \in prs[p].reviewers

\* C20: with merge_pr and reassign_pr requests overlapping, the commit of
\* a reassign_pr request changes the reviewer set of no pull request that
\* is MERGED when it commits.
C20_SwapLeavesMergedAlone ==
    [][ \A s \in Sessions :
          ( /\ sess[s].op = "reassign_pr"
            /\ sess[s].pc = "commit"
            /\ sess'[s] = Idle )
          => \A p \in DOMAIN prs :
               prs[p].status = MERGED
                 => prs'[p].reviewers = prs[p].reviewers ]_vars

\* C20 witness: a reassign_pr request answered 200 for a pull request that
\* is MERGED.
C20_Witness ==
    /\ ReassignOk(resp)
    /\ prs[resp.pr].status = MERGED
    /\ resp.replaced_by \in prs[resp.pr].reviewers

\* C21: with reassign_pr requests on a pull request overlapping, no step
\* changes the number of reviewers of a pull request, and the number stays
\* at most 2; a reviewer set holds a user once, so a swap that committed a
\* user already assigned would lower the number.
C21_ConcurrentSwapsKeepCount ==
    [][ \A p \in DOMAIN prs :
          /\ Cardinality(prs'[p].reviewers) = Cardinality(prs[p].reviewers)
          /\ Cardinality(prs'[p].reviewers) <= MaxReviewers ]_vars

\* C21 witness: two reassign_pr requests overlapped on an OPEN pull request
\* and the one that committed second was refused by the database.
C21_Witness ==
    /\ resp.op = "reassign_pr"
    /\ resp.code = "500"
    /\ \A s \in Sessions : sess[s] = Idle
    /\ \A p \in DOMAIN prs : prs[p].status = OPEN

\* C22: what the other requests can read changes in no step of a
\* deactivate_members request but its commit, and the commit either leaves
\* every table as it is or applies the whole effect at once: every member
\* of toDeactivate inactive, every loaded pull request without the
\* reviewers taken out and with the replacements put in.
C22_DeactivateIsAtomic ==
    [][ \A s \in Sessions :
          (sess[s].op = "deactivate_members" /\ sess'[s] # sess[s])
          => \/ users' = users /\ prs' = prs /\ teams' = teams
             \/ /\ DeactivateCommitted(s)
                /\ teams' = teams
                /\ \A u \in DOMAIN users :
                     users'[u] = IF u \in sess[s].ids
                                 THEN [users[u] EXCEPT !.is_active = FALSE]
                                 ELSE users[u]
                /\ \A p \in DOMAIN prs :
                     IF p \in DOMAIN sess[s].loaded
                     THEN prs'[p].reviewers =
                            (prs[p].reviewers
                               \ (sess[s].loaded[p] \cap sess[s].ids))
                            \cup { resp'.added[p][i] :
                                     i \in DOMAIN resp'.added[p] }
                     ELSE prs'[p] = prs[p] ]_vars

\* C22 witness: a deactivate_members request has committed the flip of two
\* or more members together with the repair of a pull request.
C22_Witness ==
    /\ DeactivateOk(resp)
    /\ resp.deactivated_count >= 2
    /\ resp.reassigned_prs # {}
    /\ \A s \in Sessions : sess[s] = Idle

\* C23: get_user_reviews for an existing user answers exactly the pull
\* requests that are OPEN and have the user among their reviewers, and
\* NOT_FOUND for a user that does not exist.
C23_ReviewsAreOpenAssigned ==
    resp.op = "get_user_reviews" =>
        IF resp.user \in DOMAIN users
        THEN /\ resp.code = "OK"
             /\ resp.pull_requests =
                  { p \in DOMAIN prs :
                      prs[p].status = OPEN /\ resp.user \in prs[p].reviewers }
        ELSE resp.code = "NOT_FOUND"

\* C23 witness: the answer for a reviewer of a MERGED pull request lists
\* nothing.
C23_Witness ==
    /\ resp.op = "get_user_reviews"
    /\ resp.code = "OK"
    /\ resp.pull_requests = {}
    /\ \E p \in DOMAIN prs :
         prs[p].status = MERGED /\ resp.user \in prs[p].reviewers

\* C24: with requests served one after the other, the replacement pool of
\* a successful deactivate_members is empty, the call picks no replacement
\* and every OPEN pull request ends with its reviewers minus toDeactivate.
C24_SequentialPoolEmpty ==
    [][ DeactivateOk(resp') =>
          LET ids == ActiveTeammates(resp'.team, {})
          IN  /\ ActiveReplacements(resp'.team) = {}
              /\ \A p \in DOMAIN resp'.added : resp'.added[p] = <<>>
              /\ \A p \in DOMAIN prs :
                   prs[p].status = OPEN
                     => prs'[p].reviewers = prs[p].reviewers \ ids ]_vars

\* C24 witness: a pull request lost a reviewer to deactivate_members and is
\* left with one, while the team has a member who is neither reviewer nor
\* author.
C24_Witness ==
    /\ DeactivateOk(resp)
    /\ \E p \in resp.reassigned_prs :
         /\ Cardinality(prs[p].reviewers) = 1
         /\ \E u \in DOMAIN users :
              /\ users[u].team_name = resp.team
              /\ u \notin prs[p].reviewers
              /\ u # prs[p].author_id

\* C25: with requests served one after the other, every pull request has
\* at most 2 reviewers in every reachable state.
C25_AtMostTwoReviewers ==
    \A p \in DOMAIN prs : Cardinality(prs[p].reviewers) <= MaxReviewers

\* C25 witness: after a swap the pull request has 2 reviewers while an
\* active member of the old reviewer's team is neither reviewer nor author.
C25_Witness ==
    /\ ReassignOk(resp)
    /\ Cardinality(prs[resp.pr].reviewers) = MaxReviewers
    /\ ActiveTeammates(users[resp.old].team_name,
                       prs[resp.pr].reviewers
                           \cup {prs[resp.pr].author_id}) # {}

====
